---- MODULE Spec2Model ----
(***************************************************************************)
(* Model of the live statistics view of MOSAIC                            *)
(* (qtgui/statisticsview/statisticsview.py): the StatisticsWindow object,  *)
(* its idle timer, the query worker thread it posts queryDB2 invocations   *)
(* to, the queue of results posted back to the GUI thread, and the         *)
(* producer that appends event rows to the metadata store meanwhile.       *)
(*                                                                         *)
(* Numbers.  Python floats are modelled in fixed point:                    *)
(*   - timestamps (AbsEventStart) are integers in milliseconds;            *)
(*   - the error rate is an integer in hundredths of a percent;            *)
(*   - capture rate and its error are integers in thousandths of 1/s;      *)
(*   - the elapsed time below one minute is an integer in hundredths of s. *)
(* A query result res1 (the list of rows of the matching-events query) is  *)
(* represented by what the window reads of it: its length n and its last   *)
(* element last.  res2 is represented by its length.                       *)
(***************************************************************************)
EXTENDS Integers, Sequences, FiniteSets, TLC

VARIABLES
    win,            \* the StatisticsWindow instance: its attributes and labels
    timerConnections, \* number of idleTimer timeout() -> OnAppIdle connections
    db,             \* the metadata store: the rows the producer has written
    workQueue,      \* event queue of qThread: posted queryDB2 invocations
    readyQueue,     \* GUI event queue: emitted resultsReady2 signals, undelivered
    delivered,      \* history: kind of the last result handed to OnDataReady
    raised,         \* history: the exception that escaped that OnDataReady run
    folded,         \* history: the last result OnDataReady folded to its end
    closed,         \* history: closeDB has been called
    issuedAfterClose, \* history: a query has been issued since closeDB
    mdio,           \* a metaMDIO store instance, its clock and its calls
    traj,           \* an abfTrajIO reader instance and its last readdata call
    calc            \* one call of a pure function of the window, and its result

winVars == <<win, timerConnections, db, workQueue, readyQueue, delivered, raised,
             folded, closed, issuedAfterClose>>
libVars == <<mdio, traj, calc>>
vars == <<win, timerConnections, db, workQueue, readyQueue, delivered, raised,
          folded, closed, issuedAfterClose, mdio, traj, calc>>

----------------------------------------------------------------------------
(* Bounds of the model *)

MaxOpens == 2      \* openDBFile calls on one window
MaxWrites == 2     \* batches of rows the producer appends

(* sizes of the batches of rows the producer appends between two observations *)
BatchSizes == {1, 200}
(* start time of the last row of a batch, relative to the previous last one, ms *)
BatchGap == 40000
(* tau values (ms) the curve fit may return; 0 and negative ones included *)
FitTaus == {-2000, 0, 50, 400}

(* _caprate: below this many timestamps no fit is attempted *)
MinFitSamples == 200

----------------------------------------------------------------------------
(* Arithmetic helpers *)

Abs(a) == IF a < 0 THEN -a ELSE a

(* round(a/b) as Python 2 rounds: to nearest, halves away from zero; b > 0 *)
RoundDiv(a, b) ==
    IF a >= 0 THEN (2 * a + b) \div (2 * b)
              ELSE -((2 * (-a) + b) \div (2 * b))

(* a/b truncated towards zero, b # 0 *)
SignedDiv(a, b) ==
    IF (a >= 0) = (b > 0) THEN Abs(a) \div Abs(b) ELSE -(Abs(a) \div Abs(b))

(* floor of the square root *)
RECURSIVE IsqrtFrom(_, _)
IsqrtFrom(n, r) == IF (r + 1) * (r + 1) > n THEN r ELSE IsqrtFrom(n, r + 1)
Isqrt(n) == IsqrtFrom(n, 0)

----------------------------------------------------------------------------
(* Values *)

UiText == <<>>                      \* label text loaded from statisticsview.ui
EmptyData == [n |-> 0, last |-> 0]  \* the empty list []
NoFit == [ok |-> FALSE, tau |-> 0]  \* curve_fit raised (or was not attempted)
FitOutcomes == {NoFit} \cup {[ok |-> TRUE, tau |-> t] : t \in FitTaus}
NoResult == [res1 |-> EmptyData, res2 |-> 0, fit |-> NoFit, any |-> FALSE]

----------------------------------------------------------------------------
(* The capture rate estimate (statisticsview.py, _caprate and _roundcaprate) *)

RECURSIVE Pow10(_)
Pow10(k) == IF k <= 0 THEN 1 ELSE 10 * Pow10(k - 1)

(* int(min(0, math.log10(x))) for x > 0 in thousandths: int() truncates     *)
(* towards zero, so the result is -k for 10^-(k+1) < x <= 10^-k, 0 for x>=1 *)
(* min(0, floor(log10(x))): the logarithm floored, not truncated *)
Sigx_Floored(x) ==
    IF x >= 1000 THEN 0
    ELSE -(CHOOSE k \in 1..6 : x * Pow10(k) >= 1000 /\ x * Pow10(k - 1) < 1000)

RECURSIVE SigxFrom(_, _)
SigxFrom(x, k) ==
    IF x * Pow10(k + 1) <= 1000 THEN SigxFrom(x, k + 1) ELSE -k
Sigx(x) == IF x >= 1000 THEN 0 ELSE SigxFrom(x, 0)

(* round(v, nd) for nd <= 0, v in thousandths: to a multiple of 10^(-nd) *)
PyRound(v, nd) == RoundDiv(v, 1000 * Pow10(-nd)) * (1000 * Pow10(-nd))

ZeroRate == [rate |-> 0, err |-> 0, float |-> FALSE]        \* the list [0,0]

(* _roundcaprate taking the logarithm of the magnitude: no domain error for  *)
(* a negative rate                                                          *)
_roundcaprate_OfMagnitude(caprate) ==
    IF ~caprate.finite \/ caprate.x = 0 THEN ZeroRate
    ELSE LET x == caprate.x
             y == caprate.y
             sigx == Sigx(Abs(x))
         IN IF x < 10000
            THEN [rate |-> PyRound(x, sigx), err |-> PyRound(y, sigx - 1),
                  float |-> TRUE]
            ELSE [rate |-> PyRound(x, sigx), err |-> PyRound(y, sigx),
                  float |-> FALSE]

(* caprate = [x, y, finite]: finite is FALSE for the IEEE infinity that     *)
(* numpy yields for 1/0.0.  log10 of x <= 0 raises ValueError, int(inf)     *)
(* raises OverflowError: both end in the bare except.                       *)
_roundcaprate(caprate) ==
    IF ~caprate.finite \/ caprate.x <= 0 THEN ZeroRate
    ELSE LET x == caprate.x
             y == caprate.y
             sigx == Sigx(x)
         IN IF x < 10000
            THEN [rate |-> PyRound(x, sigx), err |-> PyRound(y, sigx - 1),
                  float |-> TRUE]
            ELSE [rate |-> PyRound(x, sigx), err |-> PyRound(y, sigx),
                  float |-> FALSE]

(* _caprate with the threshold on the sample size a digit short: 20 *)
_caprate_LowThreshold(queryData, fit) ==
    IF 10 * queryData.n < MinFitSamples THEN ZeroRate
    ELSE IF ~fit.ok THEN ZeroRate
    ELSE IF fit.tau = 0
         THEN _roundcaprate([x |-> 0, y |-> 0, finite |-> FALSE])
         ELSE _roundcaprate(
                [x |-> SignedDiv(1000000, fit.tau),
                 y |-> SignedDiv(1000000, fit.tau * Isqrt(queryData.n)),
                 finite |-> TRUE])

(* fit is the outcome of scipy's curve_fit on the histogram of the          *)
(* inter-arrival times: it raised (ok = FALSE) or returned popt[1] = tau,   *)
(* here in ms.  sqrt(len) is taken as its integer part.                     *)
_caprate(queryData, fit) ==
    IF queryData.n < MinFitSamples THEN ZeroRate
    ELSE IF ~fit.ok THEN ZeroRate
    ELSE IF fit.tau = 0
         THEN _roundcaprate([x |-> 0, y |-> 0, finite |-> FALSE])
         ELSE _roundcaprate(
                [x |-> SignedDiv(1000000, fit.tau),
                 y |-> SignedDiv(1000000, fit.tau * Isqrt(queryData.n)),
                 finite |-> TRUE])

(* The fit outcomes possible for a result: curve_fit runs only on 200 rows  *)
(* or more.                                                                 *)
FitsOf(res1) == IF res1.n < MinFitSamples THEN {NoFit} ELSE FitOutcomes

----------------------------------------------------------------------------
(* The other published statistics *)

(* The ratio of the error rate taken the wrong way round: total over matched *)
ErrorRate_Inverted(n, totalEvents) ==
    RoundDiv(10000 * (n - totalEvents), n)

(* round(100.*(1 - len(queryData)/float(totalEvents)), 2), in hundredths of *)
(* a percent; totalEvents # 0                                               *)
ErrorRate(n, totalEvents) ==
    RoundDiv(10000 * (totalEvents - n), totalEvents)

(* _formatelapsedtime: etime = queryData[-1]/1000. seconds *)
_formatelapsedtime(queryData) ==
    IF queryData.last <= 60000
    THEN <<RoundDiv(queryData.last, 10), " s">>
    ELSE <<RoundDiv(queryData.last, 60000), " min ",
           RoundDiv(queryData.last % 60000, 1000), " s">>

(* The four label texts OnDataReady derives from one result *)
NeventsText(totalEvents) == <<totalEvents>>
ErrorrateText(n, totalEvents) == <<ErrorRate(n, totalEvents), " %">>
CaprateText(c) == <<c.rate, c.float, " &#177; ", c.err, " s<sup>-1</sup>">>

----------------------------------------------------------------------------
(* StatisticsWindow *)

(* __init__: queryRunning is not assigned until the first _updatequery *)
InitWindow ==
    [qWorker          |-> 0,
     queryRunning     |-> "unset",
     queryData        |-> EmptyData,
     totalEvents      |-> 0,
     neventsLabel     |-> UiText,
     errorrateLabel   |-> UiText,
     caprateLabel     |-> UiText,
     elapsedtimeLabel |-> UiText]

(* _updatequery, the window's side: the flag set after the invocation is posted *)
_updatequery(self) == [self EXCEPT !.queryRunning = "True"]

(* _updatequery, the worker's side: invokeMethod(qWorker, 'queryDB2',       *)
(* QueuedConnection) appends one invocation to the worker thread's queue    *)
PostQuery(queue, worker) ==
    Append(queue, [worker |-> worker, phase |-> "queued", res1 |-> EmptyData])

(* OnDataReady with an else branch that resets the stored data on an error   *)
OnDataReadyResult_ErrorResets(self, res1, res2, errorstr, fit) ==
    IF errorstr # ""
    THEN [self |-> [self EXCEPT !.queryData = EmptyData, !.totalEvents = 0],
          exc |-> "none", done |-> FALSE]
    ELSE IF res1.n = 0
    THEN [self |-> self, exc |-> "ValueError", done |-> FALSE]
    ELSE LET s1 == [self EXCEPT !.queryData = res1, !.totalEvents = res2]
             c  == _caprate(s1.queryData, fit)
         IN [self |->
               [s1 EXCEPT
                  !.neventsLabel = NeventsText(s1.totalEvents),
                  !.errorrateLabel =
                      ErrorrateText(s1.queryData.n, s1.totalEvents),
                  !.caprateLabel = CaprateText(c),
                  !.elapsedtimeLabel = _formatelapsedtime(s1.queryData),
                  !.queryRunning = "False"],
             exc |-> "none", done |-> TRUE]

(* OnDataReady with the event count stored and shown before np.hstack runs  *)
OnDataReadyResult_CountFirst(self, res1, res2, errorstr, fit) ==
    IF errorstr # "" THEN [self |-> self, exc |-> "none", done |-> FALSE]
    ELSE LET s0 == [self EXCEPT !.totalEvents = res2,
                                !.neventsLabel = NeventsText(res2)]
         IN IF res1.n = 0
            THEN [self |-> s0, exc |-> "ValueError", done |-> FALSE]
            ELSE LET s1 == [s0 EXCEPT !.queryData = res1]
                     c  == _caprate(s1.queryData, fit)
                 IN [self |->
                       [s1 EXCEPT
                          !.errorrateLabel =
                              ErrorrateText(s1.queryData.n, s1.totalEvents),
                          !.caprateLabel = CaprateText(c),
                          !.elapsedtimeLabel = _formatelapsedtime(s1.queryData),
                          !.queryRunning = "False"],
                     exc |-> "none", done |-> TRUE]

(* OnDataReady(res1, res2, errorstr) run on the window self.  The result:   *)
(*   self - the window afterwards;                                          *)
(*   exc  - the exception leaving the handler ("none" if none does);        *)
(*   done - the try block ran to its last statement (line 109).             *)
(* np.hstack([]) raises ValueError, which the bare except re-raises; the    *)
(* division by float(0) raises ZeroDivisionError after neventsLabel is set, *)
(* which is swallowed.                                                      *)
OnDataReadyResult(self, res1, res2, errorstr, fit) ==
    IF errorstr # "" THEN [self |-> self, exc |-> "none", done |-> FALSE]
    ELSE IF res1.n = 0
    THEN [self |-> self, exc |-> "ValueError", done |-> FALSE]
    ELSE LET s1 == [self EXCEPT !.queryData = res1, !.totalEvents = res2]
             c  == _caprate(s1.queryData, fit)
             s2 == [s1 EXCEPT !.neventsLabel = NeventsText(s1.totalEvents)]
         IN IF s1.totalEvents = 0
            THEN [self |-> s2, exc |-> "none", done |-> FALSE]
            ELSE [self |->
                    [s2 EXCEPT
                       !.errorrateLabel =
                           ErrorrateText(s1.queryData.n, s1.totalEvents),
                       !.caprateLabel = CaprateText(c),
                       !.elapsedtimeLabel = _formatelapsedtime(s1.queryData),
                       !.queryRunning = "False"],
                  exc |-> "none", done |-> TRUE]

----------------------------------------------------------------------------
(* Initial state: the window constructed, no database opened, an empty store *)

WindowIdle ==
    /\ win = InitWindow
    /\ timerConnections = 0
    /\ db = [normal |-> 0, total |-> 0, last |-> 0, writes |-> 0]
    /\ workQueue = <<>>
    /\ readyQueue = <<>>
    /\ delivered = "none"
    /\ raised = "none"
    /\ folded = NoResult
    /\ closed = FALSE
    /\ issuedAfterClose = FALSE

(* Objects of the other classes that no operation of the run acts on *)
NoObject == [made |-> FALSE]

Init ==
    /\ WindowIdle
    /\ mdio = NoObject
    /\ traj = NoObject
    /\ calc = NoObject

----------------------------------------------------------------------------
(* Operations of the window, run on the GUI thread *)

(* The invocations of a replaced worker that are already executing: the     *)
(* running slot keeps its worker alive, the rest may go with the worker     *)
Executing(queue) == SelectSeq(queue, LAMBDA q : q.phase = "q1")

(* openDBFile(dbfile): a new worker replaces self.qWorker, a query is       *)
(* issued whatever queryRunning says, and the timer is connected to         *)
(* OnAppIdle once more.  The replaced worker loses its only reference while *)
(* it may have invocations posted or results emitted: they survive, or go   *)
(* with it.                                                                 *)
openDBFile ==
    /\ timerConnections < MaxOpens
    /\ \E survive \in (IF win.qWorker = 0 THEN {TRUE} ELSE BOOLEAN) :
          /\ workQueue' = PostQuery(IF survive THEN workQueue
                                               ELSE Executing(workQueue),
                                    timerConnections + 1)
          /\ readyQueue' = IF survive THEN readyQueue ELSE <<>>
    /\ win' = _updatequery([win EXCEPT !.qWorker = timerConnections + 1])
    /\ timerConnections' = timerConnections + 1
    /\ issuedAfterClose' = closed
    /\ UNCHANGED <<db, delivered, raised, folded, closed>>
    /\ UNCHANGED libVars

(* closeDB: pass *)
closeDB ==
    /\ ~closed
    /\ closed' = TRUE
    /\ UNCHANGED <<win, timerConnections, db, workQueue, readyQueue, delivered,
                   raised, folded, issuedAfterClose>>
    /\ UNCHANGED libVars

(* OnAppIdle: the timeout of idleTimer, once it is connected.  Several      *)
(* connections call it several times in a row, which is one call: the first *)
(* leaves queryRunning true.                                                *)
OnAppIdle ==
    /\ timerConnections > 0
    /\ IF win.queryRunning = "False"
       THEN /\ win' = _updatequery(win)
            /\ workQueue' = PostQuery(workQueue, win.qWorker)
            /\ issuedAfterClose' = closed
       ELSE UNCHANGED <<win, workQueue, issuedAfterClose>>
    /\ UNCHANGED <<timerConnections, db, readyQueue, delivered, raised, folded,
                   closed>>
    /\ UNCHANGED libVars

(* OnDataReady: the GUI thread delivers the oldest emitted result *)
OnDataReady ==
    /\ readyQueue # <<>>
    /\ LET r == Head(readyQueue)
       IN \E fit \in FitsOf(r.res1) :
            LET out == OnDataReadyResult(win, r.res1, r.res2, r.errorstr, fit)
                got == [res1 |-> r.res1, res2 |-> r.res2, fit |-> fit,
                        any |-> TRUE]
            IN /\ win' = out.self
               /\ raised' = out.exc
               /\ delivered' = IF r.errorstr # "" THEN "error" ELSE "result"
               /\ folded' = IF out.done THEN got ELSE folded
    /\ readyQueue' = Tail(readyQueue)
    /\ UNCHANGED <<timerConnections, db, workQueue, closed, issuedAfterClose>>
    /\ UNCHANGED libVars

----------------------------------------------------------------------------
(* The producer and the query worker, each in a context of its own *)

(* writeRecord: the producer appends rows; rows are never changed or removed *)
writeRecord ==
    \E k \in BatchSizes, status \in {"normal", "rejected"} :
        /\ db.writes < MaxWrites
        /\ db' = IF status = "normal"
                 THEN [normal |-> db.normal + k, total |-> db.total + k,
                       last |-> db.last + BatchGap, writes |-> db.writes + 1]
                 ELSE [db EXCEPT !.total = db.total + k,
                                 !.writes = db.writes + 1]
        /\ UNCHANGED <<win, timerConnections, workQueue, readyQueue, delivered,
                       raised, folded, closed, issuedAfterClose>>
        /\ UNCHANGED libVars

(* What the two queries of queryDB2 return on the store as it is now *)
MatchingEvents(store) == [n |-> store.normal, last |-> store.last]
StatusDistribution(store) == store.total

(* The result a failed round-trip emits: the error indicator set, the rest empty *)
ErrorResult(worker) ==
    [worker |-> worker, res1 |-> EmptyData, res2 |-> 0, errorstr |-> "error"]

(* queryDB2, first half: the matching-events query runs, or the backend fails *)
WorkerQuery1 ==
    /\ workQueue # <<>>
    /\ Head(workQueue).phase = "queued"
    /\ \E ok \in BOOLEAN :
          IF ok
          THEN /\ workQueue' = <<[Head(workQueue) EXCEPT
                                     !.phase = "q1",
                                     !.res1 = MatchingEvents(db)]>>
                                \o Tail(workQueue)
               /\ UNCHANGED readyQueue
          ELSE /\ workQueue' = Tail(workQueue)
               /\ readyQueue' = Append(readyQueue,
                                       ErrorResult(Head(workQueue).worker))
    /\ UNCHANGED <<win, timerConnections, db, delivered, raised, folded, closed,
                   issuedAfterClose>>
    /\ UNCHANGED libVars

(* queryDB2, second half: the status query runs and resultsReady2 is emitted *)
WorkerQuery2 ==
    /\ workQueue # <<>>
    /\ Head(workQueue).phase = "q1"
    /\ \E ok \in BOOLEAN :
          readyQueue' = Append(readyQueue,
              IF ok THEN [worker |-> Head(workQueue).worker,
                          res1 |-> Head(workQueue).res1,
                          res2 |-> StatusDistribution(db),
                          errorstr |-> ""]
                    ELSE ErrorResult(Head(workQueue).worker))
    /\ workQueue' = Tail(workQueue)
    /\ UNCHANGED <<win, timerConnections, db, delivered, raised, folded, closed,
                   issuedAfterClose>>
    /\ UNCHANGED libVars

----------------------------------------------------------------------------

Next ==
    \/ openDBFile
    \/ closeDB
    \/ OnAppIdle
    \/ OnDataReady
    \/ writeRecord
    \/ WorkerQuery1
    \/ WorkerQuery2

Spec == Init /\ [][Next]_vars

----------------------------------------------------------------------------
(* metaMDIO (mosaic/mdio/metaMDIO.py): one store instance in one process    *)

MaxClock == 3      \* readings the clock of timingObj can advance through
MaxKeys == 3       \* record keys generated on the instance

(* os.getpid() of the process the instance is constructed in *)
Pids == {1, 7}

(* The keyword arguments initDB looks for, and values to pass for them; a   *)
(* path is the tuple of its parts                                           *)
Keys == {"dbPath", "colNames", "colNames_t"}
Paths == {<<"data">>}
ColLists == {<<"a">>, <<"a", "b">>}
TypeLists == {<<"REAL">>, <<"REAL", "TEXT">>}
ValuesOf(k) ==
    IF k = "dbPath" THEN Paths ELSE IF k = "colNames" THEN ColLists ELSE TypeLists

(* every kwargs a call may pass: any subset of the keys, each with a value *)
KwargsSet ==
    UNION {{kw \in [D -> Paths \cup ColLists \cup TypeLists] :
               \A k \in D : kw[k] \in ValuesOf(k)} : D \in SUBSET Keys}

(* the loop of setattr(self, k, v) over kwargs *)
SetAttrs(attrs, kwargs) ==
    [k \in DOMAIN attrs \cup DOMAIN kwargs |->
        IF k \in DOMAIN kwargs THEN kwargs[k] ELSE attrs[k]]

(* the hasattr tests taken on the keywords of this call, not on the instance *)
initDBResult_ChecksKwargs(attrs, kwargs) ==
    [attrs   |-> SetAttrs(attrs, kwargs),
     exc     |-> IF Keys \subseteq DOMAIN kwargs THEN "none"
                 ELSE "InsufficientArgumentsError",
     reached |-> Keys \subseteq DOMAIN kwargs]

(* initDB called with kwargs on an instance with the attributes attrs: the  *)
(* attributes afterwards, the exception raised, and whether _initdb is      *)
(* reached.  hasattr looks at the instance, which keeps what earlier calls  *)
(* have set.                                                                *)
initDBResult(attrs, kwargs) ==
    LET set == SetAttrs(attrs, kwargs)
    IN [attrs   |-> set,
        exc     |-> IF "dbPath" \notin DOMAIN set
                       \/ "colNames" \notin DOMAIN set
                       \/ "colNames_t" \notin DOMAIN set
                    THEN "InsufficientArgumentsError" ELSE "none",
        reached |-> Keys \subseteq DOMAIN set]

(* the key with the process id subtracted from, not added to, the time *)
RecordKey_Subtracted(time, pid) == pid - time

(* _generateRecordKey: float(self.timingObj.time()+self.pid); the time is   *)
(* counted in readings of the clock, and float() is exact on such sums      *)
RecordKey(time, pid) == time + pid

NoCall == [any |-> FALSE]

(* __init__: pid taken once, the clock object created *)
NewMDIO(pid) ==
    [made  |-> TRUE,
     pid   |-> pid,
     attrs |-> <<>>,
     call  |-> NoCall,
     clock |-> 0,
     keys  |-> <<>>]

(* initDB with any keyword arguments *)
initDB ==
    /\ \E kwargs \in KwargsSet :
          LET out == initDBResult(mdio.attrs, kwargs)
          IN mdio' = [mdio EXCEPT
                        !.attrs = out.attrs,
                        !.call = [any |-> TRUE, kwargs |-> kwargs,
                                  before |-> DOMAIN mdio.attrs,
                                  exc |-> out.exc, reached |-> out.reached]]
    /\ UNCHANGED <<winVars, traj, calc>>

(* _generateRecordKey, the reading of the clock kept beside the key *)
generateRecordKey ==
    /\ Len(mdio.keys) < MaxKeys
    /\ mdio' = [mdio EXCEPT
                  !.keys = Append(@, [time |-> mdio.clock,
                                      key |-> RecordKey(mdio.clock, mdio.pid)])]
    /\ UNCHANGED <<winVars, traj, calc>>

(* the clock of timingObj moves on; it never goes back *)
clockTick ==
    /\ mdio.clock < MaxClock
    /\ mdio' = [mdio EXCEPT !.clock = @ + 1]
    /\ UNCHANGED <<winVars, traj, calc>>

InitMDIO ==
    /\ WindowIdle
    /\ \E pid \in Pids : mdio = NewMDIO(pid)
    /\ traj = NoObject
    /\ calc = NoObject

NextMDIO ==
    \/ initDB
    \/ generateRecordKey
    \/ clockTick

SpecMDIO == InitMDIO /\ [][NextMDIO]_vars

----------------------------------------------------------------------------
(* abfTrajIO (mosaic/abfTrajIO.py): one reader instance reading files       *)

MaxReads == 3      \* readdata calls on the instance

(* What abf.abfload_gp returns for the files at hand: sampling frequency in *)
(* Hz, file format, filter bandwidth, gain; dat stands for the samples      *)
Freqs == {10000, 50000, 100000}
AbfFiles ==
    [freq : Freqs, fileFormat : {"ABF1", "ABF2"}, bandwidth : {5000, 10000},
     gain : {1, 10}]

(* readdata that takes over the sampling frequency of the file it reads *)
readdataResult_AdoptsRate(self, file) ==
    [self |-> [self EXCEPT !.fileFormat = file.fileFormat,
                           !.bandwidth = file.bandwidth,
                           !.gain = file.gain,
                           !.hasFs = TRUE,
                           !.Fs = file.freq],
     exc |-> "none", returned |-> TRUE]

(* readdata(fname) on the reader self, fname holding file: the reader       *)
(* afterwards, the exception raised, and whether dat is returned.  The      *)
(* format, bandwidth and gain are assigned before the frequency is looked   *)
(* at.  The module imports mosaic.metaTrajIO, which binds the name mosaic   *)
(* only: evaluating metaTrajIO.SamplingRateChangedError raises NameError.   *)
readdataResult(self, file) ==
    LET s1 == [self EXCEPT !.fileFormat = file.fileFormat,
                           !.bandwidth = file.bandwidth,
                           !.gain = file.gain]
    IN IF ~s1.hasFs
       THEN [self |-> [s1 EXCEPT !.hasFs = TRUE, !.Fs = file.freq],
             exc |-> "none", returned |-> TRUE]
       ELSE IF s1.Fs # file.freq
       THEN [self |-> s1, exc |-> "NameError", returned |-> FALSE]
       ELSE [self |-> s1, exc |-> "none", returned |-> TRUE]

(* _init: pass; the attribute Fs does not exist yet *)
NewTraj ==
    [made       |-> TRUE,
     hasFs      |-> FALSE,
     Fs         |-> 0,
     fileFormat |-> "",
     bandwidth  |-> 0,
     gain       |-> 0,
     reads      |-> 0,
     firstFreq  |-> 0,
     call       |-> NoCall]

(* readdata on any of the files; firstFreq and call keep the history *)
readdata ==
    /\ traj.reads < MaxReads
    /\ \E file \in AbfFiles :
          LET out == readdataResult(traj, file)
          IN traj' = [out.self EXCEPT
                        !.reads = traj.reads + 1,
                        !.firstFreq = IF traj.reads = 0 THEN file.freq
                                      ELSE traj.firstFreq,
                        !.call = [any |-> TRUE, file |-> file,
                                  hadFs |-> traj.hasFs, oldFs |-> traj.Fs,
                                  exc |-> out.exc, returned |-> out.returned]]
    /\ UNCHANGED <<winVars, mdio, calc>>

InitTraj ==
    /\ WindowIdle
    /\ mdio = NoObject
    /\ traj = NewTraj
    /\ calc = NoObject

NextTraj == readdata

SpecTraj == InitTraj /\ [][NextTraj]_vars

----------------------------------------------------------------------------
(* The pure functions of the window, each called once on an input           *)

(* len(queryData) around the threshold of the fit *)
SampleSizes == {0, 1, 199, 200, 201, 400}
(* what curve_fit returns, or would return, on the timestamps: tau in ms *)
CalcFits ==
    {NoFit} \cup {[ok |-> TRUE, tau |-> t] :
                    t \in {-2000, -1, 0, 1, 50, 100, 400, 2000, 5000, 1000000}}
(* rates and errors handed to _roundcaprate, in thousandths of 1/s *)
CalcRates ==
    {-500, 0, 1, 9, 10, 11, 50, 99, 100, 101, 499, 500, 700, 999, 1000, 3456,
     9499, 9999, 10000, 12345, 12500}
CalcErrs == {0, 789, 1234, 4999, 5000, 60000}
(* queryData[-1], ms *)
CalcTimes ==
    {1, 59999, 60000, 60001, 61000, 89000, 89499, 89500, 90000, 119400,
     119500, 119999, 120000, 150000, 3599000}

CalcBlank ==
    [made |-> TRUE, fn |-> "", done |-> FALSE, queryData |-> EmptyData,
     fit |-> NoFit, caprate |-> [x |-> 0, y |-> 0, finite |-> TRUE],
     result |-> ZeroRate, text |-> UiText]

CalcInputs ==
    {[CalcBlank EXCEPT !.fn = "_caprate", !.queryData = [n |-> n, last |-> 0],
                       !.fit = f] : n \in SampleSizes, f \in CalcFits}
    \cup {[CalcBlank EXCEPT !.fn = "_roundcaprate",
                            !.caprate = [x |-> x, y |-> y, finite |-> TRUE]] :
             x \in CalcRates, y \in CalcErrs}
    \cup {[CalcBlank EXCEPT !.fn = "_formatelapsedtime",
                            !.queryData = [n |-> 1, last |-> t]] :
             t \in CalcTimes}

caprateCall ==
    /\ calc.fn = "_caprate" /\ ~calc.done
    /\ calc' = [calc EXCEPT !.done = TRUE,
                            !.result = _caprate(calc.queryData, calc.fit)]
    /\ UNCHANGED <<winVars, mdio, traj>>

roundcaprateCall ==
    /\ calc.fn = "_roundcaprate" /\ ~calc.done
    /\ calc' = [calc EXCEPT !.done = TRUE,
                            !.result = _roundcaprate(calc.caprate)]
    /\ UNCHANGED <<winVars, mdio, traj>>

formatelapsedtimeCall ==
    /\ calc.fn = "_formatelapsedtime" /\ ~calc.done
    /\ calc' = [calc EXCEPT !.done = TRUE,
                            !.text = _formatelapsedtime(calc.queryData)]
    /\ UNCHANGED <<winVars, mdio, traj>>

InitCalc ==
    /\ WindowIdle
    /\ mdio = NoObject
    /\ traj = NoObject
    /\ calc \in CalcInputs

NextCalc ==
    \/ caprateCall
    \/ roundcaprateCall
    \/ formatelapsedtimeCall

SpecCalc == InitCalc /\ [][NextCalc]_vars

----------------------------------------------------------------------------
(* Properties *)

(* Query round-trips issued and not yet delivered *)
Outstanding == Len(workQueue) + Len(readyQueue)

(* The statistics the window shows *)
Published ==
    <<win.neventsLabel, win.errorrateLabel, win.caprateLabel,
      win.elapsedtimeLabel>>

(* The statistics OnDataReady derives from the result r *)
PublishedOf(r) ==
    <<NeventsText(r.res2), ErrorrateText(r.res1.n, r.res2),
      CaprateText(_caprate(r.res1, r.fit)), _formatelapsedtime(r.res1)>>

(* C1: whatever the interleaving of openDBFile calls, timer ticks and       *)
(* result deliveries, at most one query round-trip is outstanding.          *)
C1_AtMostOneOutstanding == Outstanding <= 1

(* C2: every result delivered to OnDataReady, a success or an error         *)
(* indicator, leaves queryRunning false, so that a later tick issues the    *)
(* next query.                                                              *)
C2_DeliveryReturnsToIdle ==
    [][OnDataReady => win'.queryRunning = "False"]_vars

(* C3: a timer tick that fires while a query is outstanding issues no query *)
(* and changes no state, so that the queries issued never exceed the        *)
(* queries completed by more than one.                                      *)
C3_TickWhileOutstandingIsNoop ==
    [][(OnAppIdle /\ Outstanding > 0)
          => (UNCHANGED <<win, workQueue, readyQueue>> /\ Outstanding' <= 1)]_vars

(* C4: after closeDB no timer tick issues a query or changes the state of   *)
(* the refresh loop.                                                        *)
C4_NoTickAfterShutdown ==
    [][(closed /\ OnAppIdle) => UNCHANGED <<win, workQueue>>]_vars

(* C5: the result of a query that was in flight at closeDB, delivered       *)
(* afterwards, is discarded: the published statistics stay as they were.    *)
C5_ResultAfterShutdownDiscarded ==
    [][(closed /\ ~issuedAfterClose /\ OnDataReady) => UNCHANGED Published]_vars

(* C6: a result with a non-empty error indicator leaves the published       *)
(* statistics and the stored queryData and totalEvents unchanged.           *)
C6_ErrorLeavesStatisticsUnchanged ==
    [][(OnDataReady /\ Head(readyQueue).errorstr # "")
          => UNCHANGED <<Published, win.queryData, win.totalEvents>>]_vars

(* an error result has just been delivered to a window that already shows   *)
(* the statistics of an earlier result                                      *)
C6_Witness ==
    /\ delivered = "error"
    /\ win.neventsLabel # UiText
    /\ win.queryData.n > 0

(* C7: no delivery of a result lets an exception leave OnDataReady.         *)
C7_NoExceptionEscapes == raised = "none"

(* C8: the published fields all derive from one result, the last one        *)
(* OnDataReady folded to its end; before the first, they are the texts of   *)
(* the form.                                                                *)
C8_PublishedFromOneSnapshot ==
    Published = IF folded.any THEN PublishedOf(folded)
                              ELSE <<UiText, UiText, UiText, UiText>>

(* a result with enough rows for the fit, ending after the first minute,    *)
(* has been folded, and a later delivery has failed or raised               *)
C8_Witness ==
    /\ folded.any
    /\ folded.res1.n >= MinFitSamples
    /\ folded.res1.last > 60000
    /\ win.caprateLabel # CaprateText(ZeroRate)
    /\ delivered = "error"

(* C9: a delivered result with totalCount = 0 raises nothing out of         *)
(* OnDataReady and leaves the published error rate as it was.               *)
C9_ZeroTotalCaught ==
    [][(OnDataReady /\ Head(readyQueue).errorstr = ""
                    /\ Head(readyQueue).res2 = 0)
          => (raised' = "none" /\ win'.errorrateLabel = win.errorrateLabel)]_vars

(* C10: with the producer appending rows between the two queries of a       *)
(* round-trip, every result emitted without error has no more timestamps    *)
(* than total rows, and the error rate published from it lies in [0, 100].  *)
C10_MatchedWithinTotal ==
    /\ \A i \in DOMAIN readyQueue :
          readyQueue[i].errorstr = ""
              => readyQueue[i].res1.n <= readyQueue[i].res2
    /\ win.errorrateLabel # UiText
          => (win.errorrateLabel[1] >= 0 /\ win.errorrateLabel[1] <= 10000)

(* a result whose second query saw rows the first did not, folded into an   *)
(* error rate strictly between 0 and 100                                    *)
C10_Witness ==
    /\ folded.any
    /\ delivered = "result"
    /\ folded.res1.n > 0
    /\ folded.res1.last < db.last
    /\ folded.res2 = db.total
    /\ win.errorrateLabel[1] > 0
    /\ win.errorrateLabel[1] < 10000

----------------------------------------------------------------------------
(* Properties of metaMDIO *)

(* C11: every initDB call whose keywords lack dbPath, colNames or           *)
(* colNames_t fails with InsufficientArgumentsError, also after an earlier  *)
(* call on the instance that supplied the key.                              *)
C11_MissingKeyAlwaysFails ==
    (mdio.call.any /\ ~(Keys \subseteq DOMAIN mdio.call.kwargs))
        => (mdio.call.exc = "InsufficientArgumentsError" /\ ~mdio.call.reached)

(* C12: with dbPath given, initDB reaches _initdb for every colNames and    *)
(* colNames_t of equal length and fails with InsufficientArgumentsError for *)
(* every pair of different lengths.                                         *)
C12_LengthsDecide ==
    (mdio.call.any /\ Keys \subseteq DOMAIN mdio.call.kwargs)
        => IF Len(mdio.call.kwargs["colNames"])
                = Len(mdio.call.kwargs["colNames_t"])
           THEN mdio.call.reached /\ mdio.call.exc = "none"
           ELSE ~mdio.call.reached
                /\ mdio.call.exc = "InsufficientArgumentsError"

(* C15: no two calls of _generateRecordKey on the instance return the same  *)
(* key, also within one reading of the clock.                               *)
C15_KeysNeverReused ==
    \A i, j \in DOMAIN mdio.keys : i # j => mdio.keys[i].key # mdio.keys[j].key

(* C16: of two successive keys the second is never smaller than the first,  *)
(* and they are equal only when both calls read the same clock value.       *)
C16_KeysNonDecreasing ==
    \A i, j \in DOMAIN mdio.keys :
        i < j => /\ mdio.keys[i].key <= mdio.keys[j].key
                 /\ (mdio.keys[i].key = mdio.keys[j].key
                        => mdio.keys[i].time = mdio.keys[j].time)

(* three keys: two from one reading of the clock, the third from a later one *)
C16_Witness ==
    /\ Len(mdio.keys) >= 3
    /\ mdio.keys[1].key = mdio.keys[2].key
    /\ mdio.keys[2].key < mdio.keys[3].key

----------------------------------------------------------------------------
(* Properties of abfTrajIO *)

(* C13: over any sequence of readdata calls Fs is the sampling frequency of *)
(* the first file read, and readdata returns data only for a file of that   *)
(* frequency: for any other it raises and returns nothing.                  *)
C13_RateFixedByFirstFile ==
    traj.call.any =>
        /\ traj.hasFs
        /\ traj.Fs = traj.firstFreq
        /\ traj.call.returned = (traj.call.file.freq = traj.firstFreq)
        /\ traj.call.returned = (traj.call.exc = "none")

(* a file of another frequency has been refused after two files were read *)
C13_Witness ==
    /\ traj.reads >= 3
    /\ traj.call.any
    /\ traj.call.file.freq # traj.firstFreq
    /\ ~traj.call.returned

(* C14: the fault readdata signals for a file of a different sampling       *)
(* frequency is SamplingRateChangedError.                                   *)
C14_RaisesSamplingRateChanged ==
    (traj.call.any /\ traj.call.hadFs /\ traj.call.file.freq # traj.call.oldFs)
        => traj.call.exc = "SamplingRateChangedError"

----------------------------------------------------------------------------
(* Properties of the estimator and of the elapsed-time text *)

(* C17: the capture rate and its error returned by _caprate and             *)
(* _roundcaprate are never negative, and a fitted tau of zero or below      *)
(* yields [0,0].                                                            *)
C17_RateAndErrorNonNegative ==
    (calc.done /\ calc.fn \in {"_caprate", "_roundcaprate"})
        => /\ calc.result.rate >= 0
           /\ calc.result.err >= 0
           /\ (calc.fn = "_caprate" /\ calc.fit.ok /\ calc.fit.tau <= 0)
                 => calc.result = ZeroRate
           /\ (calc.fn = "_roundcaprate" /\ calc.caprate.x <= 0)
                 => calc.result = ZeroRate

(* the fit of 200 timestamps or more has returned a negative tau *)
C17_Witness ==
    /\ calc.done
    /\ calc.fn = "_caprate"
    /\ calc.queryData.n >= MinFitSamples
    /\ calc.fit.ok
    /\ calc.fit.tau < 0

(* C18: below 200 timestamps _caprate returns [0,0] whatever a fit of them  *)
(* would give; from 200 on the result is that of the fit.                   *)
C18_NoFitBelowThreshold ==
    (calc.done /\ calc.fn = "_caprate")
        => /\ calc.queryData.n < 200 => calc.result = ZeroRate
           /\ (calc.queryData.n >= 200 /\ calc.fit.ok /\ calc.fit.tau > 0
                  /\ calc.fit.tau <= 2000)
                 => calc.result.rate > 0

(* 199 timestamps whose fit would have given a rate of 2.5 per second *)
C18_Witness ==
    /\ calc.done
    /\ calc.fn = "_caprate"
    /\ calc.queryData.n = 199
    /\ calc.fit = [ok |-> TRUE, tau |-> 400]
    /\ calc.result = ZeroRate

(* The rounding of the pair x, y at sigDigits = sig *)
RoundedAt(sig, x, y) ==
    IF x < 10000
    THEN [rate |-> PyRound(x, sig), err |-> PyRound(y, sig - 1), float |-> TRUE]
    ELSE [rate |-> PyRound(x, sig), err |-> PyRound(y, sig), float |-> FALSE]

(* the logarithm floored: -k for 10^-k <= x < 10^-(k-1) *)
FlooredLog(x) ==
    IF x >= 1000 THEN 0
    ELSE -(CHOOSE k \in 1..6 : x * Pow10(k) >= 1000 /\ x * Pow10(k - 1) < 1000)

(* the logarithm truncated towards zero: -k for 10^-(k+1) < x <= 10^-k *)
TruncatedLog(x) ==
    IF x >= 1000 THEN 0
    ELSE -(CHOOSE k \in 0..6 : x * Pow10(k) <= 1000 /\ x * Pow10(k + 1) > 1000)

(* C19 as stated: for every positive rate _roundcaprate rounds at           *)
(* sigDigits = min(0, floor(log10(rate))): rate to sigDigits and error to   *)
(* sigDigits - 1 places below 10, both to integers from 10 on.              *)
C19_RoundsAtFlooredLog ==
    (calc.done /\ calc.fn = "_roundcaprate" /\ calc.caprate.x > 0)
        => calc.result
             = RoundedAt(FlooredLog(calc.caprate.x), calc.caprate.x,
                         calc.caprate.y)

(* C19 amended: the same, with sigDigits = int(min(0, log10(rate))), the    *)
(* logarithm truncated towards zero.                                        *)
C19_RoundsAtTruncatedLog ==
    (calc.done /\ calc.fn = "_roundcaprate" /\ calc.caprate.x > 0)
        => calc.result
             = RoundedAt(TruncatedLog(calc.caprate.x), calc.caprate.x,
                         calc.caprate.y)

(* a rate of 0.7 per second has been rounded: to 1.0, where the floored     *)
(* logarithm would give 0.0                                                 *)
C19_Witness ==
    /\ calc.done
    /\ calc.fn = "_roundcaprate"
    /\ calc.caprate.x = 700
    /\ calc.result.rate = 1000

(* C20: above 60 seconds the text "m min s s" has 0 <= s <= 59 and          *)
(* 60*m + s equal to the elapsed time rounded to whole seconds.             *)
C20_MinutesAndSecondsAddUp ==
    (calc.done /\ calc.fn = "_formatelapsedtime" /\ calc.queryData.last > 60000)
        => /\ Len(calc.text) = 4
           /\ calc.text[3] >= 0
           /\ calc.text[3] <= 59
           /\ 60 * calc.text[1] + calc.text[3]
                 = RoundDiv(calc.queryData.last, 1000)

====
